---- MODULE Spec2Model ----
(***************************************************************************)
(* GeoCOM ASCII client: the wire codec of utility_functions.py and the     *)
(* TPSConnection session of TSControl_Template.py, together with the       *)
(* serial line and the instrument at its far end.                          *)
(*                                                                         *)
(* Bytes are sequences of one-character strings.  Python exceptions are    *)
(* named by their class; every raise records the source line that raised.  *)
(***************************************************************************)
EXTENDS Integers, Sequences, FiniteSets, TLC

\* ------------------------------------------------------------- bounds
\* Requests the caller may issue inside the scope and after it (the two
\* cleanup requests of __exit__ come on top).
MaxRequests == 1

\* ------------------------------------------------------------- bytes
TERMINATION_STRING == <<"\r", "\n">>
R1Q == <<"%", "R", "1", "Q">>
R1P == <<"%", "R", "1", "P">>
DigitChars == <<"0", "1", "2", "3", "4", "5", "6", "7", "8", "9">>
Whitespace == {" ", "\t", "\r", "\n"}

IsDigit(c) == \E i \in 1..10 : DigitChars[i] = c
DigitVal(c) == (CHOOSE i \in 1..10 : DigitChars[i] = c) - 1

\* str(n) of a Python int
RECURSIVE NatToStr(_)
NatToStr(n) == IF n < 10 THEN <<DigitChars[n + 1]>>
               ELSE NatToStr(n \div 10) \o <<DigitChars[(n % 10) + 1]>>
IntToStr(n) == IF n < 0 THEN <<"-">> \o NatToStr(0 - n) ELSE NatToStr(n)

\* ",".join(parts)
RECURSIVE Join(_, _)
Join(parts, sep) ==
    IF parts = <<>> THEN <<>>
    ELSE IF Len(parts) = 1 THEN parts[1]
    ELSE parts[1] \o sep \o Join(Tail(parts), sep)

\* bytes.split(sep): every occurrence splits; always at least one part
RECURSIVE SplitAll(_, _)
SplitAll(s, c) ==
    IF \A i \in 1..Len(s) : s[i] # c THEN <<s>>
    ELSE LET k == CHOOSE i \in 1..Len(s) :
                     s[i] = c /\ \A j \in 1..(i - 1) : s[j] # c
         IN <<SubSeq(s, 1, k - 1)>> \o SplitAll(SubSeq(s, k + 1, Len(s)), c)

\* bytes.split(sep, 1): only the first occurrence splits
SplitOnce_every(s, c) == SplitAll(s, c)
SplitOnce(s, c) ==
    IF \A i \in 1..Len(s) : s[i] # c THEN <<s>>
    ELSE LET k == CHOOSE i \in 1..Len(s) :
                     s[i] = c /\ \A j \in 1..(i - 1) : s[j] # c
         IN <<SubSeq(s, 1, k - 1), SubSeq(s, k + 1, Len(s))>>

\* bytes.rstrip(chars): drops every trailing byte that is in chars
RECURSIVE RStrip(_, _)
RStrip(s, chars) ==
    IF s # <<>> /\ s[Len(s)] \in chars
    THEN RStrip(SubSeq(s, 1, Len(s) - 1), chars)
    ELSE s

RECURSIVE LStrip(_, _)
LStrip(s, chars) ==
    IF s # <<>> /\ s[1] \in chars THEN LStrip(Tail(s), chars) ELSE s

RECURSIVE DigitsToNat(_)
DigitsToNat(s) ==
    IF s = <<>> THEN 0
    ELSE 10 * DigitsToNat(SubSeq(s, 1, Len(s) - 1)) + DigitVal(s[Len(s)])

\* int(b): surrounding whitespace is dropped, one sign is allowed, the rest
\* must be one or more digits.  <<n>> on success, <<>> where int() raises
\* ValueError.
ParseInt(b) ==
    LET t == RStrip(LStrip(b, Whitespace), Whitespace)
        neg == t # <<>> /\ t[1] = "-"
        d == IF t # <<>> /\ t[1] \in {"-", "+"} THEN Tail(t) ELSE t
    IN IF d = <<>> \/ \E i \in 1..Len(d) : ~IsDigit(d[i]) THEN <<>>
       ELSE <<IF neg THEN 0 - DigitsToNat(d) ELSE DigitsToNat(d)>>

\* ------------------------------------------------------------- results
\* A Python value or a raised exception.  None is <<>>, an int n is <<n>>.
NoneValue == <<>>
Raise(kind, line, code) ==
    [ok |-> FALSE, kind |-> kind, line |-> line, code |-> code, value |-> <<>>]
Return(value) ==
    [ok |-> TRUE, kind |-> "none", line |-> 0, code |-> 0, value |-> value]

\* ------------------------------------------------------------- codec
\* send_request builds this frame; transaction_id is <<>> for None
RequestString_separated(rpc_code, parameters, transaction_id) ==
    LET tr_id == IF transaction_id = NoneValue THEN <<>>
                 ELSE <<",">> \o IntToStr(transaction_id[1])
        params == Join([i \in 1..Len(parameters) |-> IntToStr(parameters[i])],
                       <<",">>)
    IN R1Q \o <<",">> \o IntToStr(rpc_code) \o tr_id \o <<":">> \o params
           \o TERMINATION_STRING
RequestString(rpc_code, parameters, transaction_id) ==
    LET tr_id == IF transaction_id = NoneValue THEN <<>>
                 ELSE IntToStr(transaction_id[1])
        params == Join([i \in 1..Len(parameters) |-> IntToStr(parameters[i])],
                       <<",">>)
    IN R1Q \o <<",">> \o IntToStr(rpc_code) \o tr_id \o <<":">> \o params
           \o TERMINATION_STRING

\* Serial.write of the base class: refuses a port that is not open; the
\* operating system may fail the write of an open port (fail)
serial_write_unchecked(open, fail, data) ==
    IF fail THEN Raise("SerialException", 80, 0) ELSE Return(data)
serial_write(open, fail, data) ==
    IF ~open THEN Raise("PortNotOpenError", 80, 0)
    ELSE IF fail THEN Raise("SerialException", 80, 0)
    ELSE Return(data)

send_request(open, fail, rpc_code, parameters, transaction_id) ==
    serial_write(open, fail, RequestString(rpc_code, parameters, transaction_id))

_get_response_header_type_unchecked(header) ==
    LET header_parts == SplitAll(header, ",")
        n == Len(header_parts)
    IN IF n # 2 /\ n # 3 THEN Raise("ValueError", 143, 0)
       ELSE LET tid == IF n = 2 THEN NoneValue ELSE ParseInt(header_parts[3])
                comm == ParseInt(header_parts[2])
            IN IF n = 3 /\ tid = <<>> THEN Raise("ValueError", 149, 0)
               ELSE IF comm = <<>> THEN Raise("ValueError", 151, 0)
               ELSE Return([communication_return_code |-> comm[1],
                            transaction_id |-> tid])
_get_response_header_first_fields(header) ==
    LET header_parts == SplitAll(header, ",")
        n == Len(header_parts)
    IN IF n < 2 THEN Raise("ValueError", 143, 0)
       ELSE IF header_parts[1] # R1P THEN Raise("ValueError", 147, 0)
       ELSE LET tid == IF n = 2 THEN NoneValue ELSE ParseInt(header_parts[3])
                comm == ParseInt(header_parts[2])
            IN IF n >= 3 /\ tid = <<>> THEN Raise("ValueError", 149, 0)
               ELSE IF comm = <<>> THEN Raise("ValueError", 151, 0)
               ELSE Return([communication_return_code |-> comm[1],
                            transaction_id |-> tid])
_get_response_header_swapped(header) ==
    LET header_parts == SplitAll(header, ",")
        n == Len(header_parts)
    IN IF n # 2 /\ n # 3 THEN Raise("ValueError", 143, 0)
       ELSE IF header_parts[1] # R1P THEN Raise("ValueError", 147, 0)
       ELSE LET tid == IF n = 2 THEN NoneValue ELSE ParseInt(header_parts[2])
                comm == ParseInt(header_parts[n])
            IN IF n = 3 /\ tid = <<>> THEN Raise("ValueError", 149, 0)
               ELSE IF comm = <<>> THEN Raise("ValueError", 151, 0)
               ELSE Return([communication_return_code |-> comm[1],
                            transaction_id |-> tid])
_get_response_header(header) ==
    LET header_parts == SplitAll(header, ",")
        n == Len(header_parts)
    IN IF n # 2 /\ n # 3 THEN Raise("ValueError", 143, 0)
       ELSE IF header_parts[1] # R1P THEN Raise("ValueError", 147, 0)
       ELSE LET tid == IF n = 2 THEN NoneValue ELSE ParseInt(header_parts[3])
                comm == ParseInt(header_parts[2])
            IN IF n = 3 /\ tid = <<>> THEN Raise("ValueError", 149, 0)
               ELSE IF comm = <<>> THEN Raise("ValueError", 151, 0)
               ELSE Return([communication_return_code |-> comm[1],
                            transaction_id |-> tid])

_get_response_parameters_unstripped(raw_parameters) ==
    LET parts == SplitAll(raw_parameters, ",")
        return_code == ParseInt(parts[1])
    IN IF return_code = <<>> THEN Raise("ValueError", 174, 0)
       ELSE Return([rpc_return_code |-> return_code[1],
                    parameters |-> Tail(parts)])
_get_response_parameters(raw_parameters) ==
    LET parameters == RStrip(raw_parameters,
                             {TERMINATION_STRING[1], TERMINATION_STRING[2]})
        parts == SplitAll(parameters, ",")
        return_code == ParseInt(parts[1])
    IN IF return_code = <<>> THEN Raise("ValueError", 174, 0)
       ELSE Return([rpc_return_code |-> return_code[1],
                    parameters |-> Tail(parts)])

\* get_response on the line readline returned
get_response_no_empty_check(response) ==
    LET parts == SplitOnce(response, ":")
    IN IF Len(parts) # 2 THEN Raise("ValueError", 110, 0)
       ELSE LET h == _get_response_header(parts[1])
                p == _get_response_parameters(parts[2])
            IN IF ~h.ok THEN h
               ELSE IF ~p.ok THEN p
               ELSE Return([rpc_return_code |-> p.value.rpc_return_code,
                            parameters |-> p.value.parameters,
                            transaction_id |-> h.value.transaction_id,
                            communication_return_code |->
                                h.value.communication_return_code])
get_response(response) ==
    IF response = <<>> THEN Raise("ConnectionError", 107, 0)
    ELSE LET parts == SplitOnce(response, ":")
         IN IF Len(parts) # 2 THEN Raise("ValueError", 110, 0)
            ELSE LET h == _get_response_header(parts[1])
                     p == _get_response_parameters(parts[2])
                 IN IF ~h.ok THEN h
                    ELSE IF ~p.ok THEN p
                    ELSE Return([rpc_return_code |-> p.value.rpc_return_code,
                                 parameters |-> p.value.parameters,
                                 transaction_id |-> h.value.transaction_id,
                                 communication_return_code |->
                                     h.value.communication_return_code])

\* ------------------------------------------------------------- execute
\* The part of execute after get_response: lines 57-72.  parameters and
\* transaction_id are the arguments of the call, got is get_response's
\* outcome; the returned tuple is
\* <<rpc_return_code, parameters, transaction_id, communication_return_code>>.
execute_rpc_checked_first(parameters, transaction_id, got) ==
    IF ~got.ok THEN got
    ELSE IF got.value.rpc_return_code # 0
         THEN Raise("ValueError", 68, got.value.rpc_return_code)
    ELSE IF got.value.communication_return_code # 0
         THEN Raise("ConnectionError", 61, got.value.communication_return_code)
    ELSE Return(<<got.value.rpc_return_code, got.value.parameters,
                  got.value.transaction_id,
                  got.value.communication_return_code>>)
execute_rpc_unchecked(parameters, transaction_id, got) ==
    IF ~got.ok THEN got
    ELSE IF got.value.communication_return_code # 0
         THEN Raise("ConnectionError", 61, got.value.communication_return_code)
    ELSE Return(<<got.value.rpc_return_code, got.value.parameters,
                  got.value.transaction_id,
                  got.value.communication_return_code>>)
execute_returns_arguments(parameters, transaction_id, got) ==
    IF ~got.ok THEN got
    ELSE IF got.value.communication_return_code # 0
         THEN Raise("ConnectionError", 61, got.value.communication_return_code)
    ELSE IF got.value.rpc_return_code # 0
         THEN Raise("ValueError", 68, got.value.rpc_return_code)
    ELSE Return(<<got.value.rpc_return_code,
                  [i \in 1..Len(parameters) |-> IntToStr(parameters[i])],
                  transaction_id,
                  got.value.communication_return_code>>)
execute_result(parameters, transaction_id, got) ==
    IF ~got.ok THEN got
    ELSE IF got.value.communication_return_code # 0
         THEN Raise("ConnectionError", 61, got.value.communication_return_code)
    ELSE IF got.value.rpc_return_code # 0
         THEN Raise("ValueError", 68, got.value.rpc_return_code)
    ELSE Return(<<got.value.rpc_return_code, got.value.parameters,
                  got.value.transaction_id,
                  got.value.communication_return_code>>)

\* __enter__: "ok", or the exception class raised
enter_unchecked(open) == Return(open)
enter_result(open) ==
    IF ~open THEN Raise("OSError", 34, 0) ELSE Return(open)

\* ------------------------------------------------------------- session
VARIABLES
    is_open,    \* Serial.is_open of the TPSConnection object
    main,       \* TRUE: the class runs under the module's own __main__ block
    tps,        \* the module-global name tps: "unbound" or "self"
    pc,         \* where the caller is (see PcValues)
    exc,        \* exception that left the body of the with statement
    raised,     \* exception raised by __enter__ or by __exit__ itself
    call,       \* <<>>, or <<c>>: execute() c has written and waits in readline
    tx,         \* every request frame written to the port, in order
    rx,         \* reply lines in the input buffer: [line, re]
    answered,   \* number of requests the instrument has replied to
    nread,      \* number of reply lines readline has taken from rx
    ncalls,     \* number of execute() calls the caller has made
    last,       \* <<>>, or <<r>>: the record of the execute() that ended last
    prev,       \* <<>>, or <<f>>: the failure before last's: [cause, kind]
    codec       \* <<>>, or the codec applied on its own: input and results

session_vars == <<is_open, main, tps, pc, exc, raised, call, tx, rx, answered,
                  nread, ncalls, last, prev>>
vars == <<session_vars, codec>>

PcValues == {"new", "scope", "L42", "L43", "L45",
             "enter_raised", "exit_raised", "exit_returned"}
Final == {"enter_raised", "exit_raised", "exit_returned"}

\* rpc codes of the two cleanup requests of __exit__
STOP_MEASUREMENTS == 2008
STANDARD_MODE == 2020
GET_ANGLES == 2107
GET_TARGET_TYPE == 17022

Request(rpc_code, parameters, transaction_id) ==
    [rpc_code |-> rpc_code, parameters |-> parameters,
     transaction_id |-> transaction_id]

\* what the caller asks for: tps.execute(17022), and a call with a
\* parameter and a transaction id
CallerRequests == {Request(GET_TARGET_TYPE, <<>>, NoneValue),
                   Request(GET_ANGLES, <<7>>, <<3>>)}

\* lines the instrument may put on the wire
LineOk == R1P \o <<",", "0", ":", "0">> \o TERMINATION_STRING
LineOkParams ==
    R1P \o <<",", "0", ",", "5", ":", "0", ",", "2", ",", "T">>
        \o TERMINATION_STRING
LineCommError == R1P \o <<",", "5", ":", "0">> \o TERMINATION_STRING
LineBothErrors == R1P \o <<",", "5", ":", "7">> \o TERMINATION_STRING
LineRpcError == R1P \o <<",", "0", ":", "7">> \o TERMINATION_STRING
LineWrongType == R1Q \o <<",", "0", ":", "0">> \o TERMINATION_STRING
LineOneField == R1P \o <<":", "0">> \o TERMINATION_STRING
LineNoColon == R1P \o <<",", "0">> \o TERMINATION_STRING
LineBadStatus == R1P \o <<",", "0", ":", "x">> \o TERMINATION_STRING
ReplyLines ==
    {LineOk, LineOkParams, LineCommError, LineBothErrors, LineRpcError,
     LineWrongType, LineOneField, LineNoColon, LineBadStatus}

\* which of the failure causes an exception came from, by the line raising it
CauseOf(r) ==
    IF r.line = 107 THEN "empty"
    ELSE IF r.line \in {110, 143, 147, 149, 151, 174} THEN "malformed"
    ELSE IF r.line = 61 THEN "comm"
    ELSE IF r.line = 68 THEN "rpc"
    ELSE "write"

Init ==
    /\ is_open \in BOOLEAN
    /\ main \in BOOLEAN
    /\ tps = "unbound"
    /\ pc = "new"
    /\ exc = "none"
    /\ raised = "none"
    /\ call = <<>>
    /\ tx = <<>>
    /\ rx = <<>>
    /\ answered = 0
    /\ nread = 0
    /\ ncalls = 0
    /\ last = <<>>
    /\ prev = <<>>
    /\ codec = <<>>

\* An execute() called from ctx ends with result res: the record of the
\* call, and where the caller goes next.
\*   body : an exception leaves the with body and __exit__ starts (line 42)
\*   L42  : line 43 is next; an exception leaves __exit__
\*   L43  : line 45 is next; an exception leaves __exit__
\*   after: the caller is outside the scope either way
Finish(ctx, request, res, wrote, reads, line, re, id) ==
    /\ last' = <<[ctx |-> ctx, request |-> request, result |-> res,
                  open |-> is_open, wrote |-> wrote, reads |-> reads,
                  line |-> line, re |-> re, id |-> id]>>
    /\ prev' = IF last # <<>> /\ ~last[1].result.ok
               THEN <<[cause |-> CauseOf(last[1].result),
                       kind |-> last[1].result.kind]>>
               ELSE prev
    /\ pc' = IF ctx = "body" THEN (IF res.ok THEN "scope" ELSE "L42")
             ELSE IF ctx = "L42" THEN (IF res.ok THEN "L43" ELSE "exit_raised")
             ELSE IF ctx = "L43" THEN (IF res.ok THEN "L45" ELSE "exit_raised")
             ELSE pc
    /\ exc' = IF ctx = "body" /\ ~res.ok THEN res.kind ELSE exc
    /\ raised' = IF ctx \in {"L42", "L43"} /\ ~res.ok THEN res.kind ELSE raised

\* execute(), lines 54: send_request writes the frame, or raises
Send(ctx, request) ==
    \E fail \in BOOLEAN :
        LET w == send_request(is_open, fail, request.rpc_code,
                              request.parameters, request.transaction_id)
        IN IF w.ok
           THEN /\ tx' = Append(tx, w.value)
                /\ call' = <<[ctx |-> ctx, request |-> request,
                              id |-> Len(tx) + 1]>>
                /\ UNCHANGED <<pc, exc, raised, last, prev>>
           ELSE /\ Finish(ctx, request, w, 0, 0, <<>>, 0, 0)
                /\ UNCHANGED <<tx, call>>

\* with TPSConnection(...) as tps: __enter__, then the name is bound
Enter ==
    /\ pc = "new"
    /\ LET r == enter_result(is_open)
       IN /\ pc' = IF r.ok THEN "scope" ELSE "enter_raised"
          /\ raised' = IF r.ok THEN raised ELSE r.kind
          /\ tps' = IF r.ok /\ main THEN "self" ELSE tps
    /\ UNCHANGED <<codec, is_open, main, exc, call, tx, rx, answered, nread, ncalls,
                   last, prev>>

\* tps.execute(...) in the body of the with statement
BodyExecute(request) ==
    /\ pc = "scope" /\ call = <<>>
    /\ ncalls < MaxRequests
    /\ ncalls' = ncalls + 1
    /\ Send("body", request)
    /\ UNCHANGED <<codec, is_open, main, tps, rx, answered, nread>>

\* the body raises an exception of its own (line 100: values[0])
BodyRaise ==
    /\ pc = "scope" /\ call = <<>>
    /\ pc' = "L42"
    /\ exc' = "IndexError"
    /\ UNCHANGED <<codec, is_open, main, tps, raised, call, tx, rx, answered, nread,
                   ncalls, last, prev>>

\* the body ends and __exit__ is called with no exception
BodyEnd ==
    /\ pc = "scope" /\ call = <<>>
    /\ pc' = "L42"
    /\ UNCHANGED <<codec, is_open, main, tps, exc, raised, call, tx, rx, answered,
                   nread, ncalls, last, prev>>

\* __exit__ line 42: self.execute(2008, parameters=[0, 0])
ExitStopMeasurements ==
    /\ pc = "L42" /\ call = <<>>
    /\ Send("L42", Request(STOP_MEASUREMENTS, <<0, 0>>, NoneValue))
    /\ UNCHANGED <<codec, is_open, main, tps, rx, answered, nread, ncalls>>

\* __exit__ line 43: tps.execute(2020, parameters=[2,]) through the global
\* name tps
ExitStandardMode ==
    /\ pc = "L43" /\ call = <<>>
    /\ IF tps = "unbound"
       THEN /\ pc' = "exit_raised"
            /\ raised' = "NameError"
            /\ UNCHANGED <<exc, call, tx, last, prev>>
       ELSE Send("L43", Request(STANDARD_MODE, <<2>>, NoneValue))
    /\ UNCHANGED <<codec, is_open, main, tps, rx, answered, nread, ncalls>>

\* __exit__ lines 45-47: self.close(); __exit__ returns None, so an
\* exception of the body goes on to the caller
ExitClose ==
    /\ pc = "L45" /\ call = <<>>
    /\ is_open' = FALSE
    /\ pc' = "exit_returned"
    /\ UNCHANGED <<codec, main, tps, exc, raised, call, tx, rx, answered, nread,
                   ncalls, last, prev>>

\* execute() called on the object outside the with statement
AfterExecute(request) ==
    /\ pc \in Final /\ call = <<>>
    /\ ncalls < MaxRequests
    /\ ncalls' = ncalls + 1
    /\ Send("after", request)
    /\ UNCHANGED <<codec, is_open, main, tps, rx, answered, nread>>

\* execute() lines 57-72 on the line readline returns
Complete(line, re) ==
    LET c == call[1]
        res == execute_result(c.request.parameters, c.request.transaction_id,
                              get_response(line))
    IN /\ Finish(c.ctx, c.request, res, 1, 1, line, re, c.id)
       /\ call' = <<>>

\* readline returns the next line of the input buffer
ReadLine ==
    /\ call # <<>> /\ rx # <<>>
    /\ Complete(Head(rx).line, Head(rx).re)
    /\ rx' = Tail(rx)
    /\ nread' = nread + 1
    /\ UNCHANGED <<codec, is_open, main, tps, tx, answered, ncalls>>

\* readline returns nothing: the read timeout expired on an empty buffer
ReadTimeoutRetry ==
    /\ call # <<>> /\ rx = <<>>
    /\ tx' = Append(tx, tx[call[1].id])
    /\ UNCHANGED <<codec, is_open, main, tps, pc, exc, raised, call, rx,
                   answered, nread, ncalls, last, prev>>
ReadTimeout ==
    /\ call # <<>> /\ rx = <<>>
    /\ Complete(<<>>, 0)
    /\ UNCHANGED <<codec, is_open, main, tps, tx, rx, answered, nread, ncalls>>

\* the instrument replies to the oldest request it has not replied to
InstrumentReply(line) ==
    /\ answered < Len(tx)
    /\ answered' = answered + 1
    /\ rx' = Append(rx, [line |-> line, re |-> answered + 1])
    /\ UNCHANGED <<codec, is_open, main, tps, pc, exc, raised, call, tx, nread,
                   ncalls, last, prev>>

Next ==
    \/ Enter
    \/ \E request \in CallerRequests : BodyExecute(request)
    \/ BodyRaise
    \/ BodyEnd
    \/ ExitStopMeasurements
    \/ ExitStandardMode
    \/ ExitClose
    \/ \E request \in CallerRequests : AfterExecute(request)
    \/ ReadLine
    \/ ReadTimeout
    \/ \E line \in ReplyLines : InstrumentReply(line)

Spec == Init /\ [][Next]_vars

TypeOK ==
    /\ is_open \in BOOLEAN /\ main \in BOOLEAN
    /\ tps \in {"unbound", "self"}
    /\ pc \in PcValues
    /\ Len(call) <= 1 /\ Len(last) <= 1 /\ Len(prev) <= 1
    /\ answered \in 0..Len(tx) /\ nread \in 0..answered
    /\ ncalls \in 0..MaxRequests

\* ------------------------------------------------------------- claims
\* the execute() that ended last read a line (possibly an empty one)
LastRead == last # <<>> /\ last[1].reads = 1
LastGot == get_response(last[1].line)
LastResult == last[1].result

\* C1: a reply that decodes with communication_status # 0 makes execute()
\* fail with the communication error (ConnectionError raised at line 61)
\* carrying that status, whatever rpc_status is: never the RPC error.
C1_CommunicationErrorFirst ==
    /\ (LastRead /\ LastGot.ok /\ LastGot.value.communication_return_code # 0)
          => /\ ~LastResult.ok
             /\ LastResult.kind = "ConnectionError"
             /\ LastResult.line = 61
             /\ LastResult.code = LastGot.value.communication_return_code
    /\ (LastRead /\ last[1].line = LineBothErrors)
          => LastResult = Raise("ConnectionError", 61, 5)
C1_Witness ==
    /\ LastRead /\ last[1].line = LineBothErrors
    /\ LastGot.ok /\ LastGot.value.rpc_return_code = 7
    /\ LastResult.kind = "ConnectionError"

\* C2: a reply that decodes with communication_status = 0 and
\* rpc_status # 0 makes execute() fail with the RPC error (ValueError raised
\* at line 68) carrying rpc_status.
C2_RpcError ==
    /\ (LastRead /\ LastGot.ok /\ LastGot.value.communication_return_code = 0
           /\ LastGot.value.rpc_return_code # 0)
          => /\ ~LastResult.ok
             /\ LastResult.kind = "ValueError"
             /\ LastResult.line = 68
             /\ LastResult.code = LastGot.value.rpc_return_code
    /\ (LastRead /\ last[1].line = LineRpcError)
          => LastResult = Raise("ValueError", 68, 7)
C2_Witness ==
    /\ LastRead /\ last[1].line = LineRpcError
    /\ LastResult.kind = "ValueError" /\ LastResult.code = 7

\* C3: the four failures of execute() (empty response, malformed frame,
\* non-zero communication status, non-zero RPC status) surface as pairwise
\* distinct error kinds: two failures of different causes never have the
\* same exception class.
FourCauses == {"empty", "malformed", "comm", "rpc"}
C3_FailureKindsDistinct ==
    (last # <<>> /\ ~LastResult.ok /\ prev # <<>>
        /\ prev[1].cause \in FourCauses /\ CauseOf(LastResult) \in FourCauses
        /\ prev[1].cause # CauseOf(LastResult))
      => prev[1].kind # LastResult.kind

\* C4: __exit__ on an open session never lets a failure of its cleanup
\* commands out: it always returns normally.
C4_ExitNeverRaises == pc # "exit_raised"

\* C5: on every way out of the with statement the port ends up closed.
C5_HandleReleased == pc \in {"exit_raised", "exit_returned"} => ~is_open

C8_OneOutstanding == Len(tx) - nread <= 1

\* C9: a reply that decodes with both statuses 0 makes execute() return
\* <<0, parameters, transaction_id, 0>> with the parameters and the
\* transaction id decoded from the line that was read.
C9_SuccessTuple ==
    /\ (LastRead /\ LastGot.ok /\ LastGot.value.communication_return_code = 0
           /\ LastGot.value.rpc_return_code = 0)
          => LastResult = Return(<<0, LastGot.value.parameters,
                                   LastGot.value.transaction_id, 0>>)
    /\ (LastRead /\ last[1].line = LineOkParams)
          => LastResult = Return(<<0, <<<<"2">>, <<"T">>>>, <<5>>, 0>>)
    /\ (LastRead /\ last[1].line = LineOk)
          => LastResult = Return(<<0, <<>>, NoneValue, 0>>)
C9_Witness ==
    /\ LastRead /\ last[1].line = LineOkParams /\ LastResult.ok
    /\ last[1].request.parameters = <<7>>
    /\ last[1].request.transaction_id = <<3>>

\* C10: an empty read makes get_response raise ConnectionError at its first
\* check (line 107), before the line is split or a field parsed, and
\* execute() lets that ConnectionError out.
C10_EmptyRead ==
    (LastRead /\ last[1].line = <<>>)
        => LastResult = Raise("ConnectionError", 107, 0)
C10_Witness ==
    /\ LastRead /\ last[1].line = <<>> /\ last[1].wrote = 1
    /\ LastResult.kind = "ConnectionError"

\* ------------------------------------------------------------- codec alone
\* The codec as pure functions: a reply line is put together from header
\* fields and body fields (or from the values a reply carries), decoded by
\* get_response and classified by execute; a request is encoded by
\* send_request.
MaxHeaderFields == 4
MaxParams == 2

\* all sequences over S of length lo..hi
SeqsOf(S, lo, hi) == UNION {[1..n -> S] : n \in lo..hi}

\* header fields and bodies a line is put together from; no field holds a
\* "," and no header field a ":"
HeaderFieldValues == {R1P, R1Q, <<"0">>, <<"5">>, <<"x">>, <<>>}
BodyValues ==
    {<<<<"0">>>>,
     <<<<"7">>>>,
     <<<<"x">>>>,
     <<<<"0">>, <<"2">>, <<"T", "P", "S", "1", "2", "0", "0">>>>,
     <<<<"0">>, <<"1", ":", "2">>, <<>>>>}

\* parameter strings a reply may carry
ParamStrings ==
    {<<"2">>, <<"T">>, <<>>, <<"-", "1", ".", "5">>, <<"1", ":", "2">>,
     <<"a", ",", "b">>, <<"x", "\r">>}
StatusValues == {0, 7, 0 - 3}
TransactionIds == {NoneValue, <<5>>, <<12>>}

\* arguments of send_request
RpcCodes == {0, STOP_MEASUREMENTS, GET_TARGET_TYPE}
ParameterValues == {0, 2, 10, 0 - 1}

LineInputs ==
    [kind : {"line"}, stage : {"input"},
     fields : SeqsOf(HeaderFieldValues, 1, MaxHeaderFields),
     body : BodyValues, colon : BOOLEAN]
ReplyInputs ==
    [kind : {"reply"}, stage : {"input"},
     comm : StatusValues, txn : TransactionIds, rpc : StatusValues,
     params : SeqsOf(ParamStrings, 0, MaxParams)]
RequestInputs ==
    [kind : {"request"}, stage : {"input"},
     rpc_code : RpcCodes, transaction_id : TransactionIds,
     parameters : SeqsOf(ParameterValues, 0, MaxParams)]

\* the bytes of a line with the given header fields and body fields; without
\* colon the header and the terminator are all there is
LineOf(fields, body, colon) ==
    Join(fields, <<",">>)
        \o (IF colon THEN <<":">> \o Join(body, <<",">>) ELSE <<>>)
        \o TERMINATION_STRING

\* the reply line of section 6 of the protocol for the values it carries:
\* %R1P,<comm>[,<txn>]:<rpc>,<p1>,...\r\n
ReplyOf(comm, txn, rpc, params) ==
    R1P \o <<",">> \o IntToStr(comm)
        \o (IF txn = NoneValue THEN <<>> ELSE <<",">> \o IntToStr(txn[1]))
        \o <<":">> \o Join(<<IntToStr(rpc)>> \o params, <<",">>)
        \o TERMINATION_STRING

CodecInit ==
    /\ is_open = TRUE
    /\ main = TRUE
    /\ tps = "unbound"
    /\ pc = "new"
    /\ exc = "none"
    /\ raised = "none"
    /\ call = <<>>
    /\ tx = <<>>
    /\ rx = <<>>
    /\ answered = 0
    /\ nread = 0
    /\ ncalls = 0
    /\ last = <<>>
    /\ prev = <<>>
    /\ codec \in LineInputs \cup ReplyInputs \cup RequestInputs

\* the line arrives: readline returns its bytes
PutLine ==
    /\ codec.kind = "line" /\ codec.stage = "input"
    /\ codec' = [kind |-> "line", stage |-> "read",
                 fields |-> codec.fields, body |-> codec.body,
                 colon |-> codec.colon,
                 line |-> LineOf(codec.fields, codec.body, codec.colon)]
    /\ UNCHANGED session_vars

PutReply ==
    /\ codec.kind = "reply" /\ codec.stage = "input"
    /\ codec' = [kind |-> "reply", stage |-> "read",
                 comm |-> codec.comm, txn |-> codec.txn, rpc |-> codec.rpc,
                 params |-> codec.params,
                 line |-> ReplyOf(codec.comm, codec.txn, codec.rpc,
                                  codec.params)]
    /\ UNCHANGED session_vars

\* get_response decodes the line and execute (lines 57-72) classifies it
Decode ==
    /\ codec.kind \in {"line", "reply"} /\ codec.stage = "read"
    /\ codec' = [codec EXCEPT !.stage = "decoded"]
                   @@ [got |-> get_response(codec.line),
                       outcome |-> execute_result(<<>>, NoneValue,
                                                  get_response(codec.line))]
    /\ UNCHANGED session_vars

\* send_request builds the frame and writes it to an open port
Encode ==
    /\ codec.kind = "request" /\ codec.stage = "input"
    /\ codec' = [codec EXCEPT !.stage = "encoded"]
                   @@ [frame |-> send_request(TRUE, FALSE, codec.rpc_code,
                                              codec.parameters,
                                              codec.transaction_id).value]
    /\ UNCHANGED session_vars

CodecNext == PutLine \/ PutReply \/ Decode \/ Encode

CodecSpec == CodecInit /\ [][CodecNext]_vars

\* ------------------------------------------------------------- codec claims
DecodedLine == codec.kind = "line" /\ codec.stage = "decoded"
DecodedReply == codec.kind = "reply" /\ codec.stage = "decoded"
EncodedRequest == codec.kind = "request" /\ codec.stage = "encoded"

\* C11: a reply whose header has 2 or 3 fields, the first not exactly %R1P,
\* fails with the protocol error raised at the reply-type check (ValueError,
\* line 147), whatever the other fields hold: the statuses are not
\* interpreted, and execute() reports that error, not the errors of lines 61
\* and 68, and returns nothing.
C11_WrongReplyType ==
    (DecodedLine /\ codec.colon /\ Len(codec.fields) \in {2, 3}
        /\ codec.fields[1] # R1P)
      => /\ codec.got = Raise("ValueError", 147, 0)
         /\ codec.outcome = Raise("ValueError", 147, 0)
C11_Witness ==
    /\ DecodedLine /\ codec.colon
    /\ codec.fields = <<R1Q, <<"5">>>> /\ codec.body = <<<<"7">>>>
    /\ codec.outcome.line = 147

\* C12: a header whose number of fields is not 2 and not 3 fails with the
\* protocol error raised at the field-count check (ValueError, line 143),
\* whatever the fields and the body hold.
C12_HeaderFieldCount ==
    (DecodedLine /\ codec.colon /\ Len(codec.fields) \notin {2, 3})
      => /\ codec.got = Raise("ValueError", 143, 0)
         /\ codec.outcome = Raise("ValueError", 143, 0)
C12_Witness ==
    /\ DecodedLine /\ codec.colon
    /\ codec.fields = <<R1P, <<"0">>, <<"5">>, <<"0">>>>
    /\ codec.body = <<<<"0">>>>
    /\ ~codec.got.ok

\* C13: a non-empty line without ':' fails with the protocol error
\* (ValueError at the split, line 110); a line with ':' is split at its first
\* ':' only, and everything after it is the body.
C13_SplitAtFirstColon ==
    /\ (DecodedLine /\ ~codec.colon)
          => /\ codec.line # <<>>
             /\ codec.got = Raise("ValueError", 110, 0)
    /\ (DecodedLine /\ codec.colon)
          => /\ SplitOnce(codec.line, ":")
                  = <<Join(codec.fields, <<",">>),
                      Join(codec.body, <<",">>) \o TERMINATION_STRING>>
             /\ codec.got.line # 110
    /\ (DecodedLine /\ codec.colon /\ codec.fields = <<R1P, <<"0">>>>
           /\ codec.body = <<<<"0">>, <<"1", ":", "2">>, <<>>>>)
          => codec.got = Return([rpc_return_code |-> 0,
                                 parameters |-> <<<<"1", ":", "2">>, <<>>>>,
                                 transaction_id |-> NoneValue,
                                 communication_return_code |-> 0])
C13_Witness ==
    /\ DecodedLine /\ codec.colon /\ codec.fields = <<R1P, <<"0">>>>
    /\ codec.body = <<<<"0">>, <<"1", ":", "2">>, <<>>>>
    /\ codec.got.ok

\* C14 as claimed: decoding the reply line built from any rpc_status, any
\* parameter strings and any optional transaction id gives back that
\* rpc_status and those parameter strings, in order and number.
C14_RoundTrip ==
    DecodedReply
      => /\ codec.got.ok
         /\ codec.got.value.rpc_return_code = codec.rpc
         /\ codec.got.value.parameters = codec.params
\* C14 as amended: the same for parameter strings that hold no ',' and do
\* not end in '\r' or '\n'.
PlainParam(p) ==
    /\ \A i \in 1..Len(p) : p[i] # ","
    /\ p = <<>> \/ p[Len(p)] \notin {"\r", "\n"}
C14_RoundTripPlain ==
    (DecodedReply /\ \A i \in 1..Len(codec.params) : PlainParam(codec.params[i]))
      => /\ codec.got.ok
         /\ codec.got.value.rpc_return_code = codec.rpc
         /\ codec.got.value.parameters = codec.params
C14_Witness ==
    /\ DecodedReply
    /\ codec.params = <<<<"-", "1", ".", "5">>, <<"1", ":", "2">>>>
    /\ codec.txn = <<12>> /\ codec.rpc = 0 - 3
    /\ codec.got.ok /\ codec.got.value.parameters = codec.params

\* C15: the request frame is "%R1Q," + decimal rpc_code + decimal
\* transaction id (nothing when there is none, no separator when there is
\* one) + ":" + the parameters joined by "," + "\r\n"; (2008, [0, 0], None)
\* gives %R1Q,2008:0,0\r\n, and no parameters give an empty parameter part.
FrameParts == SplitOnce(codec.frame, ":")
FrameNumber == SubSeq(FrameParts[1], 6, Len(FrameParts[1]))
FrameParams == SubSeq(FrameParts[2], 1, Len(FrameParts[2]) - 2)
C15_RequestFrame ==
    /\ EncodedRequest
          => /\ Len(FrameParts) = 2
             /\ SubSeq(FrameParts[1], 1, 5) = <<"%", "R", "1", "Q", ",">>
             /\ \A i \in 1..Len(FrameNumber) : IsDigit(FrameNumber[i])
             /\ LET k == Len(IntToStr(codec.rpc_code))
                IN /\ ParseInt(SubSeq(FrameNumber, 1, k)) = <<codec.rpc_code>>
                   /\ IF codec.transaction_id = NoneValue
                      THEN Len(FrameNumber) = k
                      ELSE ParseInt(SubSeq(FrameNumber, k + 1, Len(FrameNumber)))
                             = codec.transaction_id
             /\ SubSeq(FrameParts[2], Len(FrameParts[2]) - 1, Len(FrameParts[2]))
                  = <<"\r", "\n">>
             /\ IF codec.parameters = <<>> THEN FrameParams = <<>>
                ELSE LET ps == SplitAll(FrameParams, ",")
                     IN /\ Len(ps) = Len(codec.parameters)
                        /\ \A i \in 1..Len(ps) :
                              ParseInt(ps[i]) = <<codec.parameters[i]>>
    /\ (EncodedRequest /\ codec.rpc_code = 2008 /\ codec.parameters = <<0, 0>>
           /\ codec.transaction_id = NoneValue)
          => codec.frame = <<"%", "R", "1", "Q", ",", "2", "0", "0", "8", ":",
                             "0", ",", "0", "\r", "\n">>
    /\ (EncodedRequest /\ codec.rpc_code = 2008 /\ codec.parameters = <<>>
           /\ codec.transaction_id = <<5>>)
          => codec.frame = <<"%", "R", "1", "Q", ",", "2", "0", "0", "8", "5",
                             ":", "\r", "\n">>
C15_Witness ==
    /\ EncodedRequest /\ codec.rpc_code = 2008 /\ codec.parameters = <<0, 0>>
    /\ codec.transaction_id = NoneValue
    /\ Len(codec.frame) = 15

\* C16: a well-formed reply is decoded field by field: header field 2 is the
\* communication status, header field 3 (when there is one) the transaction
\* id as an integer, otherwise None; body field 1 is rpc_status and the
\* other body fields are the parameters, as strings and in order.
WellFormed ==
    /\ codec.colon /\ Len(codec.fields) \in {2, 3} /\ codec.fields[1] = R1P
    /\ \A i \in 2..Len(codec.fields) : ParseInt(codec.fields[i]) # <<>>
    /\ ParseInt(codec.body[1]) # <<>>
C16_PositionalFields ==
    /\ (DecodedLine /\ WellFormed)
          => codec.got =
               Return([rpc_return_code |-> ParseInt(codec.body[1])[1],
                       parameters |-> Tail(codec.body),
                       transaction_id |->
                           IF Len(codec.fields) = 2 THEN NoneValue
                           ELSE ParseInt(codec.fields[3]),
                       communication_return_code |->
                           ParseInt(codec.fields[2])[1]])
    /\ (DecodedLine /\ codec.colon
           /\ codec.fields = <<R1P, <<"0">>, <<"5">>>>
           /\ codec.body = <<<<"0">>, <<"2">>,
                             <<"T", "P", "S", "1", "2", "0", "0">>>>)
          => codec.got =
               Return([rpc_return_code |-> 0,
                       parameters |-> <<<<"2">>,
                                        <<"T", "P", "S", "1", "2", "0", "0">>>>,
                       transaction_id |-> <<5>>,
                       communication_return_code |-> 0])
    /\ (DecodedLine /\ codec.colon /\ codec.fields = <<R1P, <<"0">>>>
           /\ codec.body = <<<<"0">>>>)
          => codec.got = Return([rpc_return_code |-> 0, parameters |-> <<>>,
                                 transaction_id |-> NoneValue,
                                 communication_return_code |-> 0])
C16_Witness ==
    /\ DecodedLine /\ codec.colon
    /\ codec.fields = <<R1P, <<"5">>, <<"0">>>>
    /\ codec.body = <<<<"0">>, <<"2">>, <<"T", "P", "S", "1", "2", "0", "0">>>>
    /\ codec.got.ok /\ codec.got.value.communication_return_code = 5

\* ------------------------------------------------------------- session claims
StopFrame == RequestString(STOP_MEASUREMENTS, <<0, 0>>, NoneValue)
StandardFrame == RequestString(STANDARD_MODE, <<2>>, NoneValue)
IsCleanupFrame(f) == f \in {StopFrame, StandardFrame}

\* C17: once __exit__ is over, exactly two cleanup requests have been
\* written to the port of the session, 2008 with [0, 0] and then 2020 with
\* [2], each followed by its read, and the port is closed; it is open until
\* then.
C17_CleanupSequence ==
    /\ pc \in {"exit_raised", "exit_returned"}
          => /\ SelectSeq(tx, IsCleanupFrame) = <<StopFrame, StandardFrame>>
             /\ ~is_open
    /\ pc \in {"scope", "L42", "L43", "L45"} => is_open

\* C18: a frame is written only when an execute() starts, one per call; while
\* the call waits for its reply nothing more is written, and its one read,
\* of a line or of nothing, ends the call: no retry.
C18_OneWriteOneRead ==
    /\ [](call # <<>>
            => /\ Len(tx) = call[1].id
               /\ tx[call[1].id] = RequestString(call[1].request.rpc_code,
                                                 call[1].request.parameters,
                                                 call[1].request.transaction_id))
    /\ [][/\ Len(tx') <= Len(tx) + 1
          /\ Len(tx') = Len(tx) + 1 => (call = <<>> /\ call' # <<>>)
          /\ call # <<>> => tx' = tx
          /\ nread' <= nread + 1
          /\ nread' = nread + 1 => (call # <<>> /\ call' = <<>>)
          /\ (call # <<>> /\ last' # last)
                => (call' = <<>> /\ last'[1].wrote = 1 /\ last'[1].reads = 1)
          /\ (call = <<>> /\ last' # last)
                => (call' = <<>> /\ last'[1].wrote = 0 /\ last'[1].reads = 0
                      /\ ~last'[1].result.ok)]_vars
C18_Witness ==
    /\ pc = "L42" /\ call = <<>> /\ Len(tx) = 1 /\ nread = 0
    /\ last # <<>> /\ last[1].ctx = "body" /\ last[1].open
    /\ last[1].reads = 1 /\ ~LastResult.ok

\* C19: the reply an execute() decodes and returns as its result is the
\* instrument's reply to the request that same call wrote, never the reply
\* to an earlier request.
C19_ReplyMatchesRequest ==
    (LastRead /\ LastResult.ok) => last[1].re = last[1].id

====
